---- MODULE Spec2Model ----
(***************************************************************************)
(* Trade execution pipeline of the portfolio trading system: the           *)
(* TradeExecutionOrchestrator, the RiskFeedbackLoop and the agents it      *)
(* sequences.  Risks, correlations and confidences are fixed-point         *)
(* integers: risks in units of 10^-4, correlations, signal strengths and   *)
(* confidences in units of 10^-2.  Scale factors are exact rationals       *)
(* [num, den].                                                             *)
(***************************************************************************)
EXTENDS Integers, Sequences, FiniteSets, TLC

VARIABLES
    config,           \* RiskFeedbackConfig given to the constructor
    cycle,            \* number of execute_trades calls started so far
    pc,               \* position of the orchestrator inside execute_trades
    stagesRun,        \* stages entered in the current cycle, in order
    signals,          \* self.state.signals
    market_data,      \* self.state.market_data: prices and the risk model
    correlation_matrix, \* self.state.correlation_matrix
    proposal,         \* current_proposal / final_proposal (a TradeProposal)
    iteration,        \* RiskFeedbackLoop.process: iteration
    risk_assessment,  \* RiskFeedbackLoop.process: risk_assessment
    converged,        \* the while loop of process was left through break
    analyzeCalls,     \* calls of risk_agent.analyze_risk in this cycle
    loop_result,      \* value returned by RiskFeedbackLoop.process
    orders,           \* apply_rules: the order list under construction
    nextTrade,        \* apply_rules: index of the next trade to map
    returned,         \* value execute_trades handed to its caller
    portfolio_state,  \* self.state.portfolio_state: the snapshot of the caller
    agent_state,      \* BaseAgent.state of the four agents
    raised,           \* the exception that left execute_trades, if any
    correlation_adjustment, \* value returned by analyze_correlations
    reapplied,        \* value of a second call of apply_rules, if any
    execution_config, \* ExecutionRulesConfig of the orchestrator
    parallel,         \* two calls of execute_trades running in parallel threads
    client            \* a run of a sample client (SampleBar.js, SampleMD.js)

vars == <<config, cycle, pc, stagesRun, signals, market_data, correlation_matrix,
          proposal, iteration, risk_assessment, converged, analyzeCalls,
          loop_result, orders, nextTrade, returned, portfolio_state, agent_state,
          raised, correlation_adjustment, reapplied, execution_config, parallel,
          client>>

----------------------------------------------------------------------------
(* Bounds of the model *)

MaxCycles == 2
CallCap == 5
MaxQty == 102

----------------------------------------------------------------------------
(* Configuration *)

Symbols == {"AAPL", "MSFT"}
SymbolOrder == <<"AAPL", "MSFT">>

risk_tolerance == [portfolio_risk |-> 1500, position_risk |-> 500, var |-> 200]

DefaultMaxIterations == 3
DefaultResizeThreshold == [num |-> 1, den |-> 2]

MaxIterationsChoices == {0, 1, DefaultMaxIterations}
ResizeThresholdChoices == {DefaultResizeThreshold, [num |-> 3, den |-> 2]}

RiskFeedbackConfig ==
    [max_iterations : MaxIterationsChoices,
     risk_tolerance : {risk_tolerance},
     resize_threshold : ResizeThresholdChoices]

max_position_size == [num |-> 1, den |-> 10]
min_position_size == [num |-> 1, den |-> 100]
max_correlation == 70
adjustment_factor == [num |-> 1, den |-> 2]
default_order_type == "LIMIT"
time_in_force == "DAY"

\* in units of 10^-2
price_threshold == 1

\* in units of 10^-4
market_impact_limit == 50

OrderTypeChoices == {default_order_type, "MARKET"}

ExecutionRulesConfig ==
    [default_order_type : OrderTypeChoices, time_in_force : {time_in_force},
     price_threshold : {price_threshold}, market_impact_limit : {market_impact_limit}]

\* the configurations an orchestrator is built with: every configuration of
\* the risk loop with the default execution rules, and MARKET orders with
\* the default configuration of the risk loop
ConfigChoices ==
    { c \in RiskFeedbackConfig \X ExecutionRulesConfig :
        \/ c[2].default_order_type = default_order_type
        \/ /\ c[1].max_iterations = DefaultMaxIterations
           /\ c[1].resize_threshold = DefaultResizeThreshold }

\* market impact of one share, in units of 10^-4
impact_coefficient == [s \in Symbols |-> IF s = "AAPL" THEN 1 ELSE 2]

Cash == 100000

\* signals weaker than this (in units of 10^-2) produce no trade
deadband == 10

----------------------------------------------------------------------------
(* Arithmetic helpers *)

Abs(x) == IF x < 0 THEN -x ELSE x

Sign(x) == IF x < 0 THEN -1 ELSE IF x > 0 THEN 1 ELSE 0

\* int(q * num / den): truncation toward zero
Trunc(q, r) == Sign(q) * ((Abs(q) * r.num) \div r.den)

\* r1 <= r2 for rationals with positive denominators
RatLeq(r1, r2) == r1.num * r2.den <= r2.num * r1.den

RatMax(r1, r2) == IF RatLeq(r1, r2) THEN r2 ELSE r1

MaxOfSet(S) == IF S = {} THEN 0 ELSE CHOOSE x \in S : \A y \in S : y <= x

----------------------------------------------------------------------------
(* Inputs of one cycle *)

Sig(strength, conf) == [signal |-> strength, confidence |-> conf]

SignalChoices ==
    { [s \in {"AAPL"} |-> Sig(100, 80)],
      [s \in Symbols |-> IF s = "AAPL" THEN Sig(100, 80) ELSE Sig(-50, 60)],
      [s \in Symbols |-> Sig(100, 60)],
      [s \in Symbols |-> IF s = "AAPL" THEN Sig(100, 0) ELSE Sig(-100, 80)],
      [s \in {} |-> Sig(0, 0)],
      [s \in Symbols |-> IF s = "AAPL" THEN Sig(100, 60) ELSE Sig(5, 80)],
      [s \in Symbols |-> IF s = "AAPL" THEN Sig(100, 120) ELSE Sig(-50, 60)] }

PriceChoices ==
    { [s \in Symbols |-> IF s = "AAPL" THEN 100 ELSE 200],
      [s \in Symbols |-> IF s = "AAPL" THEN 150 ELSE 6000],
      [s \in Symbols |-> IF s = "AAPL" THEN 1428 ELSE 20000] }

Position(q, p) == [quantity |-> q, avg_price |-> p]

PortfolioState(pos) == [positions |-> pos, cash |-> Cash]

NoPositions == PortfolioState([s \in {} |-> Position(0, 0)])

PortfolioChoices ==
    { NoPositions, PortfolioState([s \in {"MSFT"} |-> Position(10, 200)]) }

\* The risk model behind risk_agent.analyze_risk: position risk as a function
\* of the absolute quantity, a quantity-independent part of the portfolio
\* risk, and the value at risk.
Model(k, a, m, b, v) ==
    [kind |-> k, perShare |-> [s \in Symbols |-> IF s = "AAPL" THEN a ELSE m],
     base |-> b, var |-> v]

RiskModels ==
    { Model("linear", 7, 6, 0, 100),
      Model("linear", 50, 6, 0, 100),
      Model("linear", 1, 1, 0, 100),
      Model("linear", 1, 1, 1600, 100),
      Model("linear", 1, 1, 0, 300),
      Model("constant", 7, 3, 0, 100),
      Model("inverted", 0, 0, 0, 100) }

CorrelationChoices == {60, 80}

\* the calls of execute_trades: every risk model with the valid signals of
\* full strength, a correlation above the limit and no positions held, and
\* every signal map, correlation and portfolio with a risk model under which
\* the first assessment is acceptable
InputChoices ==
    [signals : { sigs \in SignalChoices :
                   \A s \in DOMAIN sigs : sigs[s].confidence <= 100
                                          /\ Abs(sigs[s].signal) >= 50 },
     prices : PriceChoices, risk_model : RiskModels,
     correlation : {80}, portfolio_state : {NoPositions}]
    \cup
    [signals : SignalChoices, prices : PriceChoices,
     risk_model : {Model("linear", 1, 1, 0, 100)},
     correlation : CorrelationChoices, portfolio_state : PortfolioChoices]

PositionRisk(m, s, q) ==
    CASE m.kind = "linear"   -> m.perShare[s] * Abs(q)
      [] m.kind = "constant" -> m.perShare[s] * 100
      [] m.kind = "inverted" -> IF Abs(q) >= 60 THEN 300 ELSE 700

\* the precondition on the risk model: monotonic non-decreasing in |quantity|
MonotonicModels ==
    { m \in RiskModels : \A s \in Symbols : \A q1 \in 0..MaxQty : \A q2 \in q1..MaxQty :
          PositionRisk(m, s, q1) <= PositionRisk(m, s, q2) }

----------------------------------------------------------------------------
(* Trade proposals *)

TradeSigned(s, q, side) ==
    [symbol |-> s, quantity |-> IF side = "SELL" THEN -q ELSE q, type |-> side]

\* a trade carries the size as its quantity and the direction as its type
Trade(s, q, side) == [symbol |-> s, quantity |-> q, type |-> side]

TradeProposal(ts) == [trades |-> ts]

TradeSymbols(p) == { p.trades[i].symbol : i \in DOMAIN p.trades }

RECURSIVE SumQty(_, _)
SumQty(ts, s) ==
    IF ts = <<>> THEN 0
    ELSE (IF Head(ts).symbol = s THEN Head(ts).quantity ELSE 0) + SumQty(Tail(ts), s)

RECURSIVE TotalAbsQuantity(_)
TotalAbsQuantity(ts) ==
    IF ts = <<>> THEN 0 ELSE Abs(Head(ts).quantity) + TotalAbsQuantity(Tail(ts))

\* confidence within [0,1] and strength within [-1,1]
ValidSignal(sg) ==
    /\ 0 <= sg.confidence /\ sg.confidence <= 100
    /\ -100 <= sg.signal /\ sg.signal <= 100

ValidSignalConfidenceOnly(sigs) ==
    \A s \in DOMAIN sigs : 0 <= sigs[s].confidence

\* the validation at the start of a cycle
ValidSignals(sigs) == \A s \in DOMAIN sigs : ValidSignal(sigs[s])

RECURSIVE PositionsValue(_, _)
PositionsValue(syms, pf) ==
    IF syms = <<>> THEN 0
    ELSE (IF Head(syms) \in DOMAIN pf.positions
          THEN Abs(pf.positions[Head(syms)].quantity) * pf.positions[Head(syms)].avg_price
          ELSE 0)
         + PositionsValue(Tail(syms), pf)

\* the portfolio value the position size limits are fractions of
PortfolioValue(pf) == pf.cash + PositionsValue(SymbolOrder, pf)

UsableAnyConfidence(sg) == Abs(sg.signal) >= deadband

\* a signal that asks for a trade: some confidence, strength outside the deadband
Usable(sg) == sg.confidence > 0 /\ Abs(sg.signal) >= deadband

SizedQuantityCeiling(price, value) ==
    (max_position_size.num * value + max_position_size.den * price - 1)
        \div (max_position_size.den * price)

\* equal_weight sizing: floor(max_position_size * portfolio value / price)
SizedQuantity(price, value) ==
    (max_position_size.num * value) \div (max_position_size.den * price)

\* the trade is worth less than min_position_size * portfolio value
BelowMinimum(q, price, value) ==
    q * price * min_position_size.den < min_position_size.num * value

\* PositionSizingAgent.propose_trades: one trade per symbol with a usable
\* signal; a trade below the minimum size is dropped
RECURSIVE ProposeSeq(_, _, _, _)
ProposeSeq(syms, sigs, prices, value) ==
    IF syms = <<>> THEN <<>>
    ELSE LET s == Head(syms)
             rest == ProposeSeq(Tail(syms), sigs, prices, value)
         IN IF s \notin DOMAIN sigs THEN rest
            ELSE LET q == SizedQuantity(prices[s], value)
                 IN IF ~Usable(sigs[s]) \/ BelowMinimum(q, prices[s], value)
                    THEN rest
                    ELSE <<Trade(s, q, IF sigs[s].signal < 0 THEN "SELL" ELSE "BUY")>>
                         \o rest

ProposeTrades(sigs, prices, pf) ==
    TradeProposal(ProposeSeq(SymbolOrder, sigs, prices, PortfolioValue(pf)))

\* propose_trades fails with InsufficientCashError: signals ask for trades and
\* no sizing reaches the minimum size
InsufficientCash(sigs, prices, pf) ==
    /\ \E s \in DOMAIN sigs : Usable(sigs[s])
    /\ ProposeTrades(sigs, prices, pf).trades = <<>>

----------------------------------------------------------------------------
(* Risk feedback loop *)

\* risk_agent.analyze_risk
AnalyzeRisk(p, m) ==
    LET pr == [s \in TradeSymbols(p) |-> PositionRisk(m, s, SumQty(p.trades, s))]
        RECURSIVE Total(_)
        Total(syms) == IF syms = <<>> THEN 0
                       ELSE (IF Head(syms) \in DOMAIN pr THEN pr[Head(syms)] ELSE 0)
                            + Total(Tail(syms))
    IN [portfolio_risk |-> m.base + Total(SymbolOrder),
        position_risks |-> pr,
        max_position_risk |-> MaxOfSet({pr[s] : s \in DOMAIN pr}),
        var |-> m.var]

NoAssessment == [portfolio_risk |-> 0, position_risks |-> [s \in {} |-> 0],
                 max_position_risk |-> 0, var |-> 0]

IsRiskAcceptableNoVar(ra, tol) ==
    /\ ra.portfolio_risk <= tol.portfolio_risk
    /\ ra.max_position_risk <= tol.position_risk

IsRiskAcceptableNoPosition(ra, tol) ==
    /\ ra.portfolio_risk <= tol.portfolio_risk
    /\ ra.var <= tol.var

\* RiskFeedbackLoop._is_risk_acceptable
IsRiskAcceptable(ra, tol) ==
    /\ ra.portfolio_risk <= tol.portfolio_risk
    /\ ra.max_position_risk <= tol.position_risk
    /\ ra.var <= tol.var

\* adjustments for every symbol: those over the position limit as below, the
\* others by max_portfolio_risk / portfolio_risk when the portfolio is over
\* its limit
CalculateRiskAdjustmentsForPortfolio(ra, cfg) ==
    [s \in {x \in DOMAIN ra.position_risks :
                \/ ra.position_risks[x] > cfg.risk_tolerance.position_risk
                \/ ra.portfolio_risk > cfg.risk_tolerance.portfolio_risk} |->
        IF ra.position_risks[s] > cfg.risk_tolerance.position_risk
        THEN RatMax([num |-> cfg.risk_tolerance.position_risk,
                     den |-> ra.position_risks[s]], cfg.resize_threshold)
        ELSE RatMax([num |-> cfg.risk_tolerance.portfolio_risk,
                     den |-> ra.portfolio_risk], cfg.resize_threshold)]

\* RiskFeedbackLoop._calculate_risk_adjustments
CalculateRiskAdjustments(ra, cfg) ==
    [s \in {x \in DOMAIN ra.position_risks :
                ra.position_risks[x] > cfg.risk_tolerance.position_risk} |->
        RatMax([num |-> cfg.risk_tolerance.position_risk, den |-> ra.position_risks[s]],
               cfg.resize_threshold)]

\* RiskFeedbackLoop._apply_risk_adjustments: scale the quantity of every
\* adjusted symbol, truncating toward zero
ApplyRiskAdjustments(p, adj) ==
    TradeProposal([i \in DOMAIN p.trades |->
        IF p.trades[i].symbol \in DOMAIN adj
        THEN [p.trades[i] EXCEPT !.quantity = Trunc(@, adj[p.trades[i].symbol])]
        ELSE p.trades[i]])

LoopConditionOffByOne(it, max_it) == it <= max_it

\* while iteration < self.max_iterations
LoopCondition(it, max_it) == it < max_it

\* iteration += 1
NextIteration(it) == it + 1

LoopExitedOnlyOnBreak(conv, it, max_it) == conv

\* the loop may also be left when a time budget runs out
LoopExitedOnTimeout(conv, it, max_it) == TRUE

\* control leaves the while loop: through break or because its condition fails
LoopExited(conv, it, max_it) == conv \/ ~LoopCondition(it, max_it)

----------------------------------------------------------------------------
(* Correlation stage *)

CorrelationMatrix(c) == [a \in Symbols, b \in Symbols |-> IF a = b THEN 100 ELSE c]

RECURSIVE RatPow(_, _)
RatPow(r, n) == IF n = 0 THEN [num |-> 1, den |-> 1]
                ELSE LET x == RatPow(r, n - 1)
                     IN [num |-> r.num * x.num, den |-> r.den * x.den]

\* symbols of the positions the portfolio already holds
HeldSymbols(pf) == { s \in DOMAIN pf.positions : pf.positions[s].quantity # 0 }

ProposalSymbols(p) == { p.trades[i].symbol : i \in DOMAIN p.trades }

Rank(s) == CHOOSE i \in DOMAIN SymbolOrder : SymbolOrder[i] = s

\* pairs of symbols correlated beyond the limit, both in the proposal or one
\* in the proposal and the other among the existing positions
BreachingPairs(p, cm, pf) ==
    LET legs == ProposalSymbols(p) \cup HeldSymbols(pf)
    IN { pr \in legs \X legs :
           /\ Rank(pr[1]) < Rank(pr[2])
           /\ pr[1] \in ProposalSymbols(p) \/ pr[2] \in ProposalSymbols(p)
           /\ Abs(cm[pr[1], pr[2]]) > max_correlation }

LegConfidence(sigs, s) == IF s \in DOMAIN sigs THEN sigs[s].confidence ELSE 0

LegQuantity(p, pf, s) ==
    IF s \in ProposalSymbols(p)
    THEN SumQty(p.trades, s)
    ELSE Abs(pf.positions[s].quantity)

ScaledLegHigherConfidence(p, sigs, pf, pr) ==
    IF LegConfidence(sigs, pr[1]) > LegConfidence(sigs, pr[2]) THEN pr[1] ELSE pr[2]

ScaledLegFirstOnTie(p, sigs, pf, pr) ==
    LET c1 == LegConfidence(sigs, pr[1])
        c2 == LegConfidence(sigs, pr[2])
    IN IF c1 < c2 THEN pr[1] ELSE IF c2 < c1 THEN pr[2] ELSE pr[1]

\* the leg of a breaching pair that is scaled: the one with the lower
\* confidence, on equal confidence the one with the larger absolute quantity
ScaledLeg(p, sigs, pf, pr) ==
    LET c1 == LegConfidence(sigs, pr[1])
        c2 == LegConfidence(sigs, pr[2])
        q1 == LegQuantity(p, pf, pr[1])
        q2 == LegQuantity(p, pf, pr[2])
    IN IF c1 < c2 THEN pr[1]
       ELSE IF c2 < c1 THEN pr[2]
       ELSE IF q1 > q2 THEN pr[1]
       ELSE IF q2 > q1 THEN pr[2]
       ELSE IF Rank(pr[1]) < Rank(pr[2]) THEN pr[1] ELSE pr[2]

\* the two orders in which the stage can come across the legs of a pair
VisitOrders == {"forward", "reverse"}

Visited(pr, visit) == IF visit = "reverse" THEN <<pr[2], pr[1]>> ELSE pr

NoCorrelationAdjustment ==
    [adjustments |-> [s \in {} |-> [num |-> 1, den |-> 1]],
     correlation_matrix |-> CorrelationMatrix(0),
     affected_positions |-> {}]

\* CorrelationAgent.analyze_correlations: a single pass over the pairs; the
\* adjustment has a scale factor for every symbol of the proposal that is in
\* a breaching pair, 1 for a leg that is not scaled, and lists these symbols
AnalyzeCorrelations(p, sigs, cm, pf, visit) ==
    LET pairs == BreachingPairs(p, cm, pf)
        hits(s) == { pr \in pairs : ScaledLeg(p, sigs, pf, Visited(pr, visit)) = s }
        involved == { s \in ProposalSymbols(p) :
                        \E pr \in pairs : s \in {pr[1], pr[2]} }
    IN [adjustments |-> [s \in involved |->
                            RatPow(adjustment_factor, Cardinality(hits(s)))],
        correlation_matrix |-> cm,
        affected_positions |-> involved]

\* CorrelationAgent.adjust_trades
AdjustTrades(p, ca) ==
    TradeProposal([i \in DOMAIN p.trades |->
        IF p.trades[i].symbol \in DOMAIN ca.adjustments
        THEN [p.trades[i] EXCEPT !.quantity =
                                    Trunc(@, ca.adjustments[p.trades[i].symbol])]
        ELSE p.trades[i]])

----------------------------------------------------------------------------
(* Execution rules *)

\* the market-impact estimate of the trade exceeds market_impact_limit
ExceedsImpactLimit(t) ==
    t.quantity * impact_coefficient[t.symbol] > execution_config.market_impact_limit

\* reference_price * (1 +/- price_threshold) in units of 10^-2: above the
\* reference for a BUY, below it for a SELL
LimitPrice(reference_price, side) ==
    reference_price * (100 + (IF side = "BUY" THEN 1 ELSE -1)
                                 * execution_config.price_threshold)

MakeOrderDefaultOnly(t, prices) ==
    [symbol |-> t.symbol, quantity |-> t.quantity, type |-> t.type,
     order_type |-> execution_config.default_order_type,
     price |-> 100 * prices[t.symbol],
     time_in_force |-> execution_config.time_in_force]

\* the Order apply_rules makes of one trade; the price is in units of 10^-2
MakeOrder(t, prices) ==
    [symbol |-> t.symbol, quantity |-> t.quantity, type |-> t.type,
     order_type |-> IF ExceedsImpactLimit(t) THEN "LIMIT"
                    ELSE execution_config.default_order_type,
     price |-> IF ExceedsImpactLimit(t) THEN LimitPrice(prices[t.symbol], t.type)
               ELSE 100 * prices[t.symbol],
     time_in_force |-> execution_config.time_in_force]

ApplyRuleTwice(os, t, prices) ==
    IF t.quantity = 0 THEN os
    ELSE Append(Append(os, MakeOrder(t, prices)), MakeOrder(t, prices))

ApplyRuleKeepZero(os, t, prices) == Append(os, MakeOrder(t, prices))

\* one trade of apply_rules: a trade scaled to zero produces no order
ApplyRule(os, t, prices) ==
    IF t.quantity = 0 THEN os ELSE Append(os, MakeOrder(t, prices))

RECURSIVE ApplyRulesFrom(_, _, _)
ApplyRulesFrom(os, ts, prices) ==
    IF ts = <<>> THEN os
    ELSE ApplyRulesFrom(ApplyRule(os, Head(ts), prices), Tail(ts), prices)

ApplyRulesByHistory(p, prices, st) ==
    IF st.historical_decisions = <<>> THEN ApplyRulesFrom(<<>>, p.trades, prices)
    ELSE <<>>

\* ExecutionRulesAgent.apply_rules as one call; st is the AgentState of the
\* agent, which plays no part in the result
ApplyRules(p, prices, st) == ApplyRulesFrom(<<>>, p.trades, prices)

----------------------------------------------------------------------------
(* Orchestrator *)

StageStates == {"SIZING", "RISK_ADJUSTING", "CORRELATION_ADJUSTING", "FINALIZING"}
Terminal == {"DONE", "ERROR"}

StageAfterSkipCorrelation(stage) ==
    CASE stage = "INITIALIZED" -> "SIZING"
      [] stage = "SIZING" -> "RISK_ADJUSTING"
      [] stage = "RISK_ADJUSTING" -> "FINALIZING"
      [] stage = "CORRELATION_ADJUSTING" -> "FINALIZING"
      [] stage = "FINALIZING" -> "DONE"

\* the statement of execute_trades that follows the given one
StageAfter(stage) ==
    CASE stage = "INITIALIZED" -> "SIZING"
      [] stage = "SIZING" -> "RISK_ADJUSTING"
      [] stage = "RISK_ADJUSTING" -> "CORRELATION_ADJUSTING"
      [] stage = "CORRELATION_ADJUSTING" -> "FINALIZING"
      [] stage = "FINALIZING" -> "DONE"

RaisedResultPartial(partial) == partial

\* what the caller of execute_trades receives when a stage raises: the
\* exception leaves execute_trades before its return statement
RaisedResult(partial) == <<>>

Agents == {"position", "risk", "correlation", "execution"}

\* BaseAgent.__init__: self.state = AgentState()
AgentState ==
    [historical_decisions |-> <<>>, performance_metrics |-> [k \in {} |-> 0]]

\* the record propose_trades leaves of one call
Decision(c) == [cycle |-> c]

RecordLatestOnly(history, d) == <<d>>

\* the agent adds a decision to its historical_decisions
Record(history, d) == Append(history, d)

NoException == [kind |-> "none"]

\* apply_rules has not been called a second time
NotCalled == [called |-> FALSE]

\* an exception of the hierarchy: the classes have no fields
Exception(kind) == [kind |-> kind]

\* no parallel calls are under way
NotParallel == [threads |-> <<>>, contexts |-> <<>>, histories |-> <<>>,
                shared_agents |-> FALSE]

\* const maxNumMsgs = 10000
maxNumMsgs == 10000

\* the template ids the message handler of consume tells apart, and one it
\* does not know
Templates == {13, 19, 101, 150, 151, 207, 251, 999}

\* a message of the server: the template id of its Base part and, for a tick
\* bar replay response, whether it is the final one (empty rqHandlerRpCode,
\* non-empty rpCode)
Msg(t, final) == [template |-> t, final |-> final]

\* a buffer Base.decode throws on
Undecodable == Msg(-1, FALSE)

ServerMessages == {Msg(t, FALSE) : t \in Templates} \cup {Msg(207, TRUE), Undecodable}

\* the reply of the server to a login request
ResponseLogin == Msg(11, FALSE)

NoEvent == [kind |-> "none", msg |-> Undecodable]

Event(kind, m) == [kind |-> kind, msg |-> m]

\* the listeners consume registers on the socket
ConsumeListeners == {"messageHandler", "errorHandler", "closeHandler", "clearHeartbeat"}

Samples == {"SampleBar.js", "SampleMD.js"}

\* process.argv.slice(2).length: usage, list of systems, login
ArgCounts == {0, 1, 6}

NoClient ==
    [sample |-> "none", args |-> 0, pc |-> "START", readyState |-> "NONE",
     listeners |-> {}, g_rp_is_done |-> FALSE, numMsgs |-> 0,
     heartbeatInterval |-> "unset", sent |-> {}, login_response |-> FALSE,
     resolved |-> FALSE, heartbeat_after_resolve |-> FALSE, event |-> NoEvent]

Enter(stage) ==
    /\ pc' = stage
    /\ stagesRun' = IF stage \in StageStates THEN Append(stagesRun, stage) ELSE stagesRun

\* the orchestrator after __init__
InitOrchestrator ==
    /\ \E c \in ConfigChoices : config = c[1] /\ execution_config = c[2]
    /\ cycle = 0
    /\ pc = "IDLE"
    /\ stagesRun = <<>>
    /\ signals = [s \in {} |-> Sig(0, 0)]
    /\ market_data = [prices |-> [s \in Symbols |-> 100],
                      risk_model |-> Model("linear", 1, 1, 0, 100)]
    /\ correlation_matrix = CorrelationMatrix(0)
    /\ proposal = TradeProposal(<<>>)
    /\ iteration = 0
    /\ risk_assessment = NoAssessment
    /\ converged = FALSE
    /\ analyzeCalls = 0
    /\ loop_result = TradeProposal(<<>>)
    /\ orders = <<>>
    /\ nextTrade = 1
    /\ returned = <<>>
    /\ portfolio_state = PortfolioState([s \in {} |-> Position(0, 0)])
    /\ agent_state = [a \in Agents |-> AgentState]
    /\ raised = NoException
    /\ correlation_adjustment = NoCorrelationAdjustment
    /\ reapplied = NotCalled

Init == InitOrchestrator /\ parallel = NotParallel /\ client = NoClient

\* execute_trades is called: self.state.update(signals, portfolio_state)
ExecuteTrades(sigs, prices, m, c, pf) ==
    /\ pc \in {"IDLE"} \cup Terminal
    /\ cycle < MaxCycles
    /\ cycle' = cycle + 1
    /\ pc' = "INITIALIZED"
    /\ stagesRun' = <<>>
    /\ signals' = sigs
    /\ market_data' = [prices |-> prices, risk_model |-> m]
    /\ correlation_matrix' = CorrelationMatrix(c)
    /\ proposal' = TradeProposal(<<>>)
    /\ iteration' = 0
    /\ risk_assessment' = NoAssessment
    /\ converged' = FALSE
    /\ analyzeCalls' = 0
    /\ loop_result' = TradeProposal(<<>>)
    /\ orders' = <<>>
    /\ nextTrade' = 1
    /\ returned' = <<>>
    /\ portfolio_state' = pf
    /\ raised' = NoException
    /\ correlation_adjustment' = NoCorrelationAdjustment
    /\ reapplied' = NotCalled
    /\ UNCHANGED <<client, parallel, config, execution_config, agent_state>>

\* the validation of the inputs at the start of the cycle fails
ValidationRaises ==
    /\ pc = "INITIALIZED"
    /\ ~ValidSignals(signals)
    /\ pc' = "ERROR"
    /\ raised' = Exception("InvalidSignalError")
    /\ returned' = RaisedResult(orders)
    /\ UNCHANGED <<client, parallel, config, execution_config, cycle, stagesRun, signals, market_data, correlation_matrix,
                   proposal, iteration, risk_assessment, converged, analyzeCalls,
                   loop_result, orders, nextTrade, portfolio_state, agent_state,
                   correlation_adjustment, reapplied>>

\* position_agent.propose_trades is called
CallProposeTrades ==
    /\ pc = "INITIALIZED"
    /\ ValidSignals(signals)
    /\ Enter(StageAfter(pc))
    /\ UNCHANGED <<client, parallel, config, execution_config, cycle, signals, market_data, correlation_matrix, proposal,
                   iteration, risk_assessment, converged, analyzeCalls, loop_result,
                   orders, nextTrade, returned,
                   portfolio_state, agent_state, raised,
                   correlation_adjustment, reapplied>>

\* propose_trades returns initial_proposal; risk_loop.process is called
ProposeTradesReturns ==
    /\ pc = "SIZING"
    /\ ~InsufficientCash(signals, market_data.prices, portfolio_state)
    /\ proposal' = ProposeTrades(signals, market_data.prices, portfolio_state)
    /\ agent_state' = [agent_state EXCEPT !["position"].historical_decisions =
                           Record(@, Decision(cycle))]
    /\ iteration' = 0
    /\ Enter(StageAfter(pc))
    /\ UNCHANGED <<client, parallel, config, execution_config, cycle, signals, market_data, correlation_matrix,
                   risk_assessment, converged, analyzeCalls, loop_result,
                   orders, nextTrade, returned, portfolio_state, raised,
                   correlation_adjustment, reapplied>>

\* propose_trades raises InsufficientCashError; nothing in execute_trades
\* catches it
ProposeTradesRaises ==
    /\ pc = "SIZING"
    /\ InsufficientCash(signals, market_data.prices, portfolio_state)
    /\ pc' = "ERROR"
    /\ raised' = Exception("InsufficientCashError")
    /\ returned' = RaisedResult(orders)
    /\ UNCHANGED <<client, parallel, config, execution_config, cycle, stagesRun, signals, market_data, correlation_matrix,
                   proposal, iteration, risk_assessment, converged, analyzeCalls,
                   loop_result, orders, nextTrade, portfolio_state, agent_state,
                   correlation_adjustment, reapplied>>

\* one pass through the body of the while loop of RiskFeedbackLoop.process
RiskIteration ==
    /\ pc = "RISK_ADJUSTING"
    /\ ~converged
    /\ LoopCondition(iteration, config.max_iterations)
    /\ LET ra == AnalyzeRisk(proposal, market_data.risk_model)
       IN /\ risk_assessment' = ra
          /\ analyzeCalls' = IF analyzeCalls < CallCap THEN analyzeCalls + 1 ELSE CallCap
          /\ IF IsRiskAcceptable(ra, config.risk_tolerance)
             THEN /\ converged' = TRUE
                  /\ UNCHANGED <<proposal, iteration>>
             ELSE /\ proposal' = ApplyRiskAdjustments(proposal,
                                      CalculateRiskAdjustments(ra, config))
                  /\ iteration' = NextIteration(iteration)
                  /\ UNCHANGED converged
    /\ UNCHANGED <<client, parallel, config, execution_config, cycle, pc, stagesRun, signals, market_data,
                   correlation_matrix, loop_result, orders, nextTrade, returned,
                   portfolio_state, agent_state, raised,
                   correlation_adjustment, reapplied>>

RiskLoopReturnsEarly ==
    /\ pc = "RISK_ADJUSTING"
    /\ loop_result' = proposal
    /\ Enter(StageAfter(pc))
    /\ UNCHANGED <<client, parallel, config, execution_config, cycle, signals, market_data,
                   correlation_matrix, proposal, iteration, risk_assessment,
                   converged, analyzeCalls, orders, nextTrade, returned,
                   portfolio_state, agent_state, raised, correlation_adjustment,
                   reapplied>>

\* process returns current_proposal; correlation_agent.analyze_correlations
\* is called
RiskLoopReturns ==
    /\ pc = "RISK_ADJUSTING"
    /\ LoopExited(converged, iteration, config.max_iterations)
    /\ loop_result' = proposal
    /\ Enter(StageAfter(pc))
    /\ UNCHANGED <<client, parallel, config, execution_config, cycle, signals, market_data, correlation_matrix, proposal,
                   iteration, risk_assessment, converged, analyzeCalls,
                   orders, nextTrade, returned,
                   portfolio_state, agent_state, raised,
                   correlation_adjustment, reapplied>>

\* analyze_correlations and adjust_trades return; apply_rules is called
CorrelationReturns ==
    /\ pc = "CORRELATION_ADJUSTING"
    /\ \E visit \in VisitOrders :
          correlation_adjustment' =
              AnalyzeCorrelations(proposal, signals, correlation_matrix,
                                  portfolio_state, visit)
    /\ proposal' = AdjustTrades(proposal, correlation_adjustment')
    /\ orders' = <<>>
    /\ nextTrade' = 1
    /\ Enter(StageAfter(pc))
    /\ UNCHANGED <<client, parallel, config, execution_config, cycle, signals, market_data, correlation_matrix,
                   iteration, risk_assessment, converged, analyzeCalls, loop_result,
                   returned, portfolio_state, agent_state, raised, reapplied>>

\* apply_rules maps the next trade of the proposal to an order
ApplyRuleStep ==
    /\ pc = "FINALIZING"
    /\ nextTrade <= Len(proposal.trades)
    /\ orders' = ApplyRule(orders, proposal.trades[nextTrade], market_data.prices)
    /\ nextTrade' = nextTrade + 1
    /\ UNCHANGED <<client, parallel, config, execution_config, cycle, pc, stagesRun, signals, market_data,
                   correlation_matrix, proposal, iteration, risk_assessment,
                   converged, analyzeCalls, loop_result, returned,
                   portfolio_state, agent_state, raised,
                   correlation_adjustment, reapplied>>

ReturnOrdersSettling ==
    /\ pc = "FINALIZING"
    /\ nextTrade > Len(proposal.trades)
    /\ returned' = orders
    /\ portfolio_state' = [portfolio_state EXCEPT !.cash = @ - Len(orders)]
    /\ Enter(StageAfter(pc))
    /\ UNCHANGED <<client, parallel, config, execution_config, cycle, signals, market_data,
                   correlation_matrix, proposal, iteration, risk_assessment,
                   converged, analyzeCalls, loop_result, orders, nextTrade,
                   agent_state, raised, correlation_adjustment, reapplied>>

\* apply_rules returns; execute_trades returns orders
ReturnOrders ==
    /\ pc = "FINALIZING"
    /\ nextTrade > Len(proposal.trades)
    /\ returned' = orders
    /\ Enter(StageAfter(pc))
    /\ UNCHANGED <<client, parallel, config, execution_config, cycle, signals, market_data, correlation_matrix, proposal,
                   iteration, risk_assessment, converged, analyzeCalls, loop_result,
                   orders, nextTrade,
                   portfolio_state, agent_state, raised,
                   correlation_adjustment, reapplied>>

\* the running stage raises; nothing in execute_trades catches it
StageRaises ==
    /\ pc \in StageStates
    /\ pc' = "ERROR"
    /\ raised' = Exception("AgentError")
    /\ returned' = RaisedResult(orders)
    /\ UNCHANGED <<client, parallel, config, execution_config, cycle, stagesRun, signals, market_data, correlation_matrix,
                   proposal, iteration, risk_assessment, converged, analyzeCalls,
                   loop_result, orders, nextTrade, portfolio_state, agent_state,
                   correlation_adjustment, reapplied>>

\* apply_rules is called a second time on the final proposal of the cycle,
\* with the same context and whatever the agent has recorded meanwhile
ApplyRulesAgain ==
    /\ pc = "DONE"
    /\ ~reapplied.called
    /\ \E st \in { agent_state["execution"],
                    [agent_state["execution"] EXCEPT !.historical_decisions =
                                                         Append(@, Decision(cycle))] } :
          reapplied' = [called |-> TRUE,
                        orders |-> ApplyRules(proposal, market_data.prices, st)]
    /\ UNCHANGED <<client, parallel, config, execution_config, cycle, pc, stagesRun, signals, market_data,
                   correlation_matrix, proposal, iteration, risk_assessment,
                   converged, analyzeCalls, loop_result, orders, nextTrade, returned,
                   portfolio_state, agent_state, raised, correlation_adjustment>>

Progress ==
    \/ ValidationRaises
    \/ CallProposeTrades
    \/ ProposeTradesReturns
    \/ ProposeTradesRaises
    \/ RiskIteration
    \/ RiskLoopReturns
    \/ CorrelationReturns
    \/ ApplyRuleStep
    \/ ReturnOrders

Next ==
    \/ \E call \in InputChoices :
          ExecuteTrades(call.signals, call.prices, call.risk_model, call.correlation,
                        call.portfolio_state)
    \/ Progress
    \/ StageRaises
    \/ ApplyRulesAgain

Spec == Init /\ [][Next]_vars

\* a call of execute_trades runs to its end: the cycle is one synchronous
\* sequence of statements
LiveSpec == Spec /\ WF_vars(Progress)

----------------------------------------------------------------------------
(* Two calls of execute_trades in parallel threads *)

mainVars == <<config, cycle, pc, stagesRun, signals, market_data, correlation_matrix,
              proposal, iteration, risk_assessment, converged, analyzeCalls,
              loop_result, orders, nextTrade, returned, portfolio_state, agent_state,
              raised, correlation_adjustment, reapplied, execution_config>>

ThreadIds == {1, 2}

Call(sigs, prices, m, c, pf) ==
    [signals |-> sigs, prices |-> prices, risk_model |-> m, correlation |-> c,
     portfolio_state |-> pf]

NoCall == Call([s \in {} |-> Sig(0, 0)], [s \in Symbols |-> 100],
               Model("linear", 1, 1, 0, 100), 0, NoPositions)

ParallelInputChoices ==
    { Call([s \in Symbols |-> IF s = "AAPL" THEN Sig(100, 80) ELSE Sig(-50, 60)],
           [s \in Symbols |-> IF s = "AAPL" THEN 100 ELSE 200],
           Model("linear", 7, 6, 0, 100), 80, NoPositions),
      Call([s \in Symbols |-> Sig(100, 60)],
           [s \in Symbols |-> IF s = "AAPL" THEN 150 ELSE 6000],
           Model("linear", 1, 1, 0, 100), 80,
           PortfolioState([s \in {"MSFT"} |-> Position(10, 200)])),
      Call([s \in {"AAPL"} |-> Sig(100, 80)],
           [s \in Symbols |-> IF s = "AAPL" THEN 100 ELSE 200],
           Model("constant", 7, 3, 0, 100), 60, NoPositions),
      Call([s \in Symbols |-> IF s = "AAPL" THEN Sig(100, 120) ELSE Sig(-50, 60)],
           [s \in Symbols |-> IF s = "AAPL" THEN 100 ELSE 200],
           Model("linear", 1, 1, 0, 100), 80, NoPositions),
      Call([s \in Symbols |-> IF s = "AAPL" THEN Sig(100, 0) ELSE Sig(-100, 80)],
           [s \in Symbols |-> IF s = "AAPL" THEN 1428 ELSE 20000],
           Model("linear", 1, 1, 0, 100), 80, NoPositions) }

IdleThread ==
    [pc |-> "IDLE", own |-> NoCall, proposal |-> TradeProposal(<<>>), iteration |-> 0,
     converged |-> FALSE, seen |-> <<>>, returned |-> <<>>, raised |-> NoException]

ContextOfOneOrchestrator(i) == 1

\* the ExecutionState the thread works on: that of its own orchestrator
ContextOf(i) == i

\* the position agent whose AgentState the thread writes
AgentOf(i) == IF parallel.shared_agents THEN 1 ELSE i

Thread(i) == parallel.threads[i]

Context(i) == parallel.contexts[ContextOf(i)]

ParInit ==
    /\ InitOrchestrator
    /\ \E shared \in BOOLEAN :
          parallel = [threads |-> [i \in ThreadIds |-> IdleThread],
                      contexts |-> [i \in ThreadIds |-> NoCall],
                      histories |-> [i \in ThreadIds |-> <<>>],
                      shared_agents |-> shared]
    /\ client = NoClient

\* a thread calls execute_trades: self.state.update(signals, portfolio_state)
ParExecuteTrades(i, call) ==
    /\ Thread(i).pc = "IDLE"
    /\ parallel' = [parallel EXCEPT
                       !.threads[i] = [@ EXCEPT !.pc = "INITIALIZED", !.own = call],
                       !.contexts[ContextOf(i)] = call]
    /\ UNCHANGED <<client, mainVars>>

\* the validation of the inputs at the start of the cycle fails
ParValidationRaises(i) ==
    /\ Thread(i).pc = "INITIALIZED"
    /\ ~ValidSignals(Context(i).signals)
    /\ parallel' = [parallel EXCEPT !.threads[i] =
                       [@ EXCEPT !.pc = "ERROR",
                                 !.raised = Exception("InvalidSignalError"),
                                 !.returned = RaisedResult(<<>>)]]
    /\ UNCHANGED <<client, mainVars>>

\* propose_trades is called; the agent reads its historical_decisions
ParCallProposeTrades(i) ==
    /\ Thread(i).pc = "INITIALIZED"
    /\ ValidSignals(Context(i).signals)
    /\ parallel' = [parallel EXCEPT !.threads[i] =
                       [@ EXCEPT !.pc = "SIZING",
                                 !.seen = parallel.histories[AgentOf(i)],
                                 !.proposal = ProposeTrades(Context(i).signals,
                                                            Context(i).prices,
                                                            Context(i).portfolio_state)]]
    /\ UNCHANGED <<client, mainVars>>

\* the agent writes its historical_decisions and propose_trades returns
ParProposeTradesReturns(i) ==
    /\ Thread(i).pc = "SIZING"
    /\ ~InsufficientCash(Context(i).signals, Context(i).prices,
                         Context(i).portfolio_state)
    /\ parallel' = [parallel EXCEPT
                       !.threads[i] = [@ EXCEPT !.pc = "RISK_ADJUSTING", !.iteration = 0],
                       !.histories[AgentOf(i)] = Record(Thread(i).seen, Decision(i))]
    /\ UNCHANGED <<client, mainVars>>

\* propose_trades raises InsufficientCashError
ParProposeTradesRaises(i) ==
    /\ Thread(i).pc = "SIZING"
    /\ InsufficientCash(Context(i).signals, Context(i).prices,
                        Context(i).portfolio_state)
    /\ parallel' = [parallel EXCEPT !.threads[i] =
                       [@ EXCEPT !.pc = "ERROR",
                                 !.raised = Exception("InsufficientCashError"),
                                 !.returned = RaisedResult(<<>>)]]
    /\ UNCHANGED <<client, mainVars>>

\* one pass through the body of the while loop of process
ParRiskIteration(i) ==
    /\ Thread(i).pc = "RISK_ADJUSTING"
    /\ ~Thread(i).converged
    /\ LoopCondition(Thread(i).iteration, config.max_iterations)
    /\ LET ra == AnalyzeRisk(Thread(i).proposal, Context(i).risk_model)
       IN parallel' = [parallel EXCEPT !.threads[i] =
              IF IsRiskAcceptable(ra, config.risk_tolerance)
              THEN [@ EXCEPT !.converged = TRUE]
              ELSE [@ EXCEPT !.proposal = ApplyRiskAdjustments(@,
                                              CalculateRiskAdjustments(ra, config)),
                             !.iteration = NextIteration(@)]]
    /\ UNCHANGED <<client, mainVars>>

\* process returns; analyze_correlations is called
ParRiskLoopReturns(i) ==
    /\ Thread(i).pc = "RISK_ADJUSTING"
    /\ LoopExited(Thread(i).converged, Thread(i).iteration, config.max_iterations)
    /\ parallel' = [parallel EXCEPT !.threads[i].pc = "CORRELATION_ADJUSTING"]
    /\ UNCHANGED <<client, mainVars>>

\* analyze_correlations and adjust_trades return; apply_rules is called
ParCorrelationReturns(i) ==
    /\ Thread(i).pc = "CORRELATION_ADJUSTING"
    /\ \E visit \in VisitOrders :
          parallel' = [parallel EXCEPT !.threads[i] =
              [@ EXCEPT !.pc = "FINALIZING",
                        !.proposal = AdjustTrades(@,
                            AnalyzeCorrelations(@, Context(i).signals,
                                CorrelationMatrix(Context(i).correlation),
                                Context(i).portfolio_state, visit))]]
    /\ UNCHANGED <<client, mainVars>>

\* apply_rules returns; execute_trades returns orders
ParReturnOrders(i) ==
    /\ Thread(i).pc = "FINALIZING"
    /\ parallel' = [parallel EXCEPT !.threads[i] =
              [@ EXCEPT !.pc = "DONE",
                        !.returned = ApplyRules(Thread(i).proposal, Context(i).prices,
                                                AgentState)]]
    /\ UNCHANGED <<client, mainVars>>

ParNext ==
    \E i \in ThreadIds :
        \/ \E call \in ParallelInputChoices : ParExecuteTrades(i, call)
        \/ ParValidationRaises(i)
        \/ ParCallProposeTrades(i)
        \/ ParProposeTradesReturns(i)
        \/ ParProposeTradesRaises(i)
        \/ ParRiskIteration(i)
        \/ ParRiskLoopReturns(i)
        \/ ParCorrelationReturns(i)
        \/ ParReturnOrders(i)

\* two threads, each in one call of execute_trades, under every interleaving
\* of their steps
ParSpec == ParInit /\ [][ParNext]_vars

\* RiskFeedbackLoop.process run to its end
RECURSIVE RunLoop(_, _, _)
RunLoop(p, it, m) ==
    IF ~LoopCondition(it, config.max_iterations) THEN p
    ELSE LET ra == AnalyzeRisk(p, m)
         IN IF IsRiskAcceptable(ra, config.risk_tolerance) THEN p
            ELSE RunLoop(ApplyRiskAdjustments(p, CalculateRiskAdjustments(ra, config)),
                         NextIteration(it), m)

\* the orders of a call of execute_trades that runs alone
RunAlone(call) ==
    LET looped == RunLoop(ProposeTrades(call.signals, call.prices, call.portfolio_state),
                          0, call.risk_model)
        adjusted == AdjustTrades(looped,
                        AnalyzeCorrelations(looped, call.signals,
                                            CorrelationMatrix(call.correlation),
                                            call.portfolio_state, "forward"))
    IN ApplyRules(adjusted, call.prices, AgentState)

----------------------------------------------------------------------------
(* The sample clients: connect, log in, request, consume, log out *)

\* the request a sample sends after the login: SampleBar.js replays tick
\* bars, SampleMD.js subscribes to market data
RequestOf(sample) ==
    IF sample = "SampleBar.js" THEN "tick_bar_replay" ELSE "market_data_update"

\* the requests that are sent after the login
RequestsAfterLogin == {"tick_bar_replay", "market_data_update", "logout", "disconnect"}

ClientInit ==
    /\ InitOrchestrator
    /\ config.max_iterations = DefaultMaxIterations
    /\ config.resize_threshold = DefaultResizeThreshold
    /\ execution_config.default_order_type = default_order_type
    /\ parallel = NotParallel
    /\ client = NoClient

\* main: with one or six arguments connectToRithmic creates the socket and
\* waits for it to open; any other number of arguments prints the usage
Main(sample, n) ==
    /\ client.pc = "START"
    /\ client' = IF n \in {1, 6}
                 THEN [client EXCEPT !.sample = sample, !.args = n,
                                     !.pc = "CONNECTING",
                                     !.readyState = "CONNECTING",
                                     !.listeners = {"open", "connectError"},
                                     !.event = Event("main", Undecodable)]
                 ELSE [client EXCEPT !.sample = sample, !.args = n, !.pc = "EXIT",
                                     !.event = Event("main", Undecodable)]
    /\ UNCHANGED <<mainVars, parallel>>

ConnectOpenWithoutLoginResponse ==
    /\ client.pc = "CONNECTING"
    /\ client' = IF client.args = 1
                 THEN [client EXCEPT !.readyState = "OPEN", !.pc = "LISTING",
                                     !.sent = @ \cup {"list_systems"},
                                     !.listeners = @ \cup {"onceMessage"},
                                     !.event = Event("open", Undecodable)]
                 ELSE [client EXCEPT !.readyState = "OPEN", !.pc = "CONSUMING",
                                     !.sent = @ \cup {"login", RequestOf(client.sample),
                                                      "heartbeat"},
                                     !.listeners = @ \cup ConsumeListeners,
                                     !.heartbeatInterval = "set",
                                     !.event = Event("open", Undecodable)]
    /\ UNCHANGED <<mainVars, parallel>>

\* the socket opens: connectToRithmic resolves and main goes on to
\* listSystems or to rithmicLogin, which sends its request and waits for one
\* message
ConnectOpen ==
    /\ client.pc = "CONNECTING"
    /\ client' = [client EXCEPT
                     !.readyState = "OPEN",
                     !.pc = IF client.args = 1 THEN "LISTING" ELSE "LOGGING_IN",
                     !.sent = @ \cup {IF client.args = 1 THEN "list_systems" ELSE "login"},
                     !.listeners = @ \cup {"onceMessage"},
                     !.event = Event("open", Undecodable)]
    /\ UNCHANGED <<mainVars, parallel>>

\* the socket fails to open: connectToRithmic rejects and main ends in its
\* catch
ConnectError ==
    /\ client.pc = "CONNECTING"
    /\ client' = [client EXCEPT !.readyState = "CLOSED", !.pc = "FAILED",
                                !.event = Event("error", Undecodable)]
    /\ UNCHANGED <<mainVars, parallel>>

\* listSystems gets its message, prints it, and main returns
ListSystemsResponse ==
    /\ client.pc = "LISTING"
    /\ "onceMessage" \in client.listeners
    /\ client.readyState = "OPEN"
    /\ client' = [client EXCEPT !.pc = "EXIT",
                                !.listeners = @ \ {"onceMessage"},
                                !.event = Event("message", Msg(17, FALSE))]
    /\ UNCHANGED <<mainVars, parallel>>

\* rithmicLogin gets its message and returns; main sends the request of the
\* sample and calls consume, which sends a heartbeat, registers its listeners
\* and sets the heartbeat interval
LoginResponse(m) ==
    /\ client.pc = "LOGGING_IN"
    /\ "onceMessage" \in client.listeners
    /\ client.readyState = "OPEN"
    /\ client' = [client EXCEPT
                     !.pc = "CONSUMING",
                     !.login_response = (m = ResponseLogin),
                     !.listeners = (@ \ {"onceMessage"}) \cup ConsumeListeners,
                     !.sent = @ \cup {RequestOf(client.sample), "heartbeat"},
                     !.numMsgs = 0,
                     !.heartbeatInterval = "set",
                     !.event = Event("message", m)]
    /\ UNCHANGED <<mainVars, parallel>>

\* responseTickBarReplayCb: the final response sets g_rp_is_done
ResponseTickBarReplayCb(done, m) == done \/ (m.template = 207 /\ m.final)

\* messageHandler of consume in SampleBar.js, one run: decode the Base part,
\* call responseTickBarReplayCb on a tick bar replay response, count the
\* message, and stop when the count or g_rp_is_done says so
MessageHandler(m) ==
    /\ client.sample = "SampleBar.js"
    /\ client.pc = "CONSUMING"
    /\ "messageHandler" \in client.listeners
    /\ IF m = Undecodable
       THEN client' = [client EXCEPT !.event = Event("message", m)]
       ELSE LET done == ResponseTickBarReplayCb(client.g_rp_is_done, m)
                n == client.numMsgs + 1
                stop == n >= maxNumMsgs \/ done
            IN client' = [client EXCEPT
                   !.g_rp_is_done = done,
                   !.numMsgs = n,
                   !.listeners = IF stop THEN @ \ {"messageHandler"} ELSE @,
                   !.resolved = stop,
                   !.pc = IF stop THEN "AFTER_CONSUME" ELSE @,
                   !.event = Event("message", m)]
    /\ UNCHANGED <<mainVars, parallel>>

\* the message limit of the earlier version of the sample
MarketDataMessageHandlerWithLimit(m) ==
    /\ client.sample = "SampleMD.js"
    /\ client.pc = "CONSUMING"
    /\ "messageHandler" \in client.listeners
    /\ LET n == client.numMsgs + 1
           stop == n >= 100
       IN client' = [client EXCEPT
              !.numMsgs = n,
              !.listeners = IF stop THEN @ \ {"messageHandler"} ELSE @,
              !.resolved = stop,
              !.pc = IF stop THEN "AFTER_CONSUME" ELSE @,
              !.event = Event("message", m)]
    /\ UNCHANGED <<mainVars, parallel>>

\* the message handler of consume in SampleMD.js: the message is displayed
MarketDataMessageHandler(m) ==
    /\ client.sample = "SampleMD.js"
    /\ client.pc = "CONSUMING"
    /\ "messageHandler" \in client.listeners
    /\ client' = [client EXCEPT !.event = Event("message", m)]
    /\ UNCHANGED <<mainVars, parallel>>

\* SampleMD.js: the user types 'quit' or sends SIGINT, and consume returns
UserQuits(how) ==
    /\ client.sample = "SampleMD.js"
    /\ client.pc = "CONSUMING"
    /\ client' = [client EXCEPT !.resolved = TRUE, !.pc = "AFTER_CONSUME",
                                !.event = Event(how, Undecodable)]
    /\ UNCHANGED <<mainVars, parallel>>

\* the socket emits 'error' and is on its way to closed; errorHandler, when
\* registered, removes the three handlers of consume and resolves
SocketError ==
    /\ client.readyState = "OPEN"
    /\ client.pc # "AFTER_CONSUME"
    /\ client' = IF "errorHandler" \in client.listeners
                 THEN [client EXCEPT
                          !.readyState = "CLOSING",
                          !.listeners = @ \ {"messageHandler", "errorHandler",
                                             "closeHandler"},
                          !.resolved = TRUE,
                          !.pc = IF @ = "CONSUMING" THEN "AFTER_CONSUME" ELSE @,
                          !.event = Event("error", Undecodable)]
                 ELSE [client EXCEPT !.readyState = "CLOSING",
                                     !.event = Event("error", Undecodable)]
    /\ UNCHANGED <<mainVars, parallel>>

\* the socket emits 'close': closeHandler, when registered, removes the three
\* handlers of consume and resolves; the once-listener clears the interval
SocketClose ==
    /\ client.readyState \in {"OPEN", "CLOSING"}
    /\ client.pc # "AFTER_CONSUME"
    /\ LET handled == "closeHandler" \in client.listeners
       IN client' = [client EXCEPT
              !.readyState = "CLOSED",
              !.listeners = (IF handled
                             THEN @ \ {"messageHandler", "errorHandler", "closeHandler"}
                             ELSE @) \ {"clearHeartbeat"},
              !.resolved = @ \/ handled,
              !.pc = IF handled /\ @ = "CONSUMING" THEN "AFTER_CONSUME" ELSE @,
              !.heartbeatInterval =
                  IF "clearHeartbeat" \in client.listeners THEN "cleared" ELSE @,
              !.event = Event("close", Undecodable)]
    /\ UNCHANGED <<mainVars, parallel>>

\* the callback of the heartbeat interval
HeartbeatTimer ==
    /\ client.heartbeatInterval = "set"
    /\ client.pc # "AFTER_CONSUME"
    /\ client' = IF client.readyState = "OPEN" /\ ~client.g_rp_is_done
                 THEN [client EXCEPT !.sent = @ \cup {"heartbeat"},
                                     !.heartbeat_after_resolve = @ \/ client.resolved,
                                     !.event = Event("timer", Undecodable)]
                 ELSE [client EXCEPT !.heartbeatInterval = "cleared",
                                     !.event = Event("timer", Undecodable)]
    /\ UNCHANGED <<mainVars, parallel>>

\* main after consume has returned: with the socket OPEN it sends the logout
\* request and closes the socket, otherwise it only prints
MainAfterConsume ==
    /\ client.pc = "AFTER_CONSUME"
    /\ client' = IF client.readyState = "OPEN"
                 THEN [client EXCEPT !.pc = "EXIT",
                                     !.sent = @ \cup {"logout", "disconnect"},
                                     !.readyState = "CLOSING",
                                     !.event = Event("main", Undecodable)]
                 ELSE [client EXCEPT !.pc = "EXIT",
                                     !.event = Event("main", Undecodable)]
    /\ UNCHANGED <<mainVars, parallel>>

ClientNext ==
    \/ \E sample \in Samples : \E n \in ArgCounts : Main(sample, n)
    \/ ConnectOpen
    \/ ConnectError
    \/ ListSystemsResponse
    \/ LoginResponse(ResponseLogin)
    \/ \E m \in ServerMessages : MessageHandler(m)
    \/ \E m \in ServerMessages : MarketDataMessageHandler(m)
    \/ \E how \in {"quit", "SIGINT"} : UserQuits(how)
    \/ SocketError
    \/ SocketClose
    \/ HeartbeatTimer
    \/ MainAfterConsume

\* one run of a sample client against a server that sends what it likes
ClientSpec == ClientInit /\ [][ClientNext]_vars

----------------------------------------------------------------------------
(* Properties *)

PipelineOrder == <<"SIZING", "RISK_ADJUSTING", "CORRELATION_ADJUSTING", "FINALIZING">>

IsPrefix(a, b) == Len(a) <= Len(b) /\ \A i \in 1..Len(a) : a[i] = b[i]

\* process has returned in the current cycle
LoopReturned == \E i \in DOMAIN stagesRun : stagesRun[i] = "CORRELATION_ADJUSTING"

\* a returned value that tells its receiver that the risk loop did not converge
ReportsNonConvergence(r) == "converged" \in DOMAIN r /\ r.converged = FALSE

\* the whole of what a completed cycle hands to its caller
CycleResult == [orders |-> returned]

StageOrderStep ==
    \/ pc' = pc
    \/ pc \in {"INITIALIZED"} \cup StageStates /\ pc' = "ERROR"
    \/ <<pc, pc'>> \in { <<"INITIALIZED", "SIZING">>,
                         <<"SIZING", "RISK_ADJUSTING">>,
                         <<"RISK_ADJUSTING", "CORRELATION_ADJUSTING">>,
                         <<"CORRELATION_ADJUSTING", "FINALIZING">>,
                         <<"FINALIZING", "DONE">> }
    \/ pc \in {"IDLE"} \cup Terminal /\ pc' = "INITIALIZED" /\ cycle' = cycle + 1

\* C1: within a cycle the orchestrator only moves along INITIALIZED -> SIZING
\* -> RISK_ADJUSTING -> CORRELATION_ADJUSTING -> FINALIZING -> DONE or from one
\* of these to ERROR; the stages entered so far are always a prefix of the
\* pipeline order (none skipped, repeated or out of order), and DONE is reached
\* only after all four have run.
C1_StageOrder ==
    /\ [][StageOrderStep]_vars
    /\ [](IsPrefix(stagesRun, PipelineOrder))
    /\ [](pc = "DONE" => stagesRun = PipelineOrder)

C1_Witness == pc = "DONE" /\ stagesRun = PipelineOrder /\ returned # <<>>

\* C2: a cycle that ends in ERROR hands no order to the caller, also when
\* apply_rules had already mapped trades to orders, and a non-empty order list
\* is only ever returned in state DONE.
C2_AllOrNothing ==
    /\ pc = "ERROR" => returned = <<>>
    /\ returned # <<>> => pc = "DONE"

C2_Witness == pc = "ERROR" /\ orders # <<>> /\ stagesRun = PipelineOrder

TerminalStep ==
    pc \in Terminal =>
        \/ pc' = "INITIALIZED" /\ cycle' = cycle + 1
        \/ UNCHANGED <<pc, cycle, stagesRun, proposal, iteration, risk_assessment,
                       converged, analyzeCalls, loop_result, orders, nextTrade,
                       returned, portfolio_state, agent_state, raised>>

\* C3: every started cycle reaches DONE or ERROR, and once it has, nothing of
\* that cycle changes any more: the only step left is the start of the next
\* cycle.
C3_CycleTerminates ==
    /\ \A n \in 1..MaxCycles :
          (cycle = n /\ pc = "INITIALIZED") ~> (cycle = n /\ pc \in Terminal)
    /\ [][TerminalStep]_vars

C3_Witness ==
    /\ pc = "DONE"
    /\ ~converged
    /\ config.max_iterations = DefaultMaxIterations
    /\ iteration = config.max_iterations

\* C4: the risk loop calls analyze_risk at most max_iterations times and
\* always reaches its exit, whatever the proposal and the risk model.
C4_LoopBounded ==
    /\ [](analyzeCalls <= config.max_iterations /\ iteration <= config.max_iterations)
    /\ (pc = "RISK_ADJUSTING") ~>
           (pc = "ERROR" \/ converged \/ iteration = config.max_iterations)

C4_Witness ==
    /\ LoopReturned
    /\ ~converged
    /\ config.max_iterations = DefaultMaxIterations
    /\ analyzeCalls = config.max_iterations

\* C5: when the loop was left through break (converged), the last metrics are
\* those of the returned proposal and satisfy the whole acceptance predicate:
\* portfolio risk, the position risk of every symbol of the proposal, and
\* value at risk are within their limits.
C5_ConvergedAcceptable ==
    (LoopReturned /\ converged) =>
        /\ risk_assessment.portfolio_risk <= config.risk_tolerance.portfolio_risk
        /\ \A s \in TradeSymbols(loop_result) :
              /\ s \in DOMAIN risk_assessment.position_risks
              /\ risk_assessment.position_risks[s] <= config.risk_tolerance.position_risk
        /\ risk_assessment.var <= config.risk_tolerance.var

C5_Witness ==
    /\ LoopReturned
    /\ converged
    /\ iteration > 0
    /\ loop_result.trades # <<>>

\* C6: when risk never becomes acceptable, the value process returns carries
\* converged = false together with the proposal after exactly max_iterations
\* adjustment steps.
C6_NonConvergenceReported ==
    (LoopReturned /\ ~converged) =>
        /\ iteration = config.max_iterations
        /\ ReportsNonConvergence(loop_result)

ShrinkStep ==
    (pc = "RISK_ADJUSTING" /\ pc' = "RISK_ADJUSTING") =>
        /\ Len(proposal'.trades) = Len(proposal.trades)
        /\ \A i \in DOMAIN proposal.trades :
              Abs(proposal'.trades[i].quantity) <= Abs(proposal.trades[i].quantity)
        /\ TotalAbsQuantity(proposal'.trades) <= TotalAbsQuantity(proposal.trades)

\* C7: within the risk loop no iteration increases the absolute quantity of
\* any trade, so the total absolute quantity never grows.
C7_MonotonicShrink == [][ShrinkStep]_vars

ClaimedScale(risk, cfg) ==
    LET r == [num |-> cfg.risk_tolerance.position_risk, den |-> risk]
        m == IF RatLeq(r, cfg.resize_threshold) THEN cfg.resize_threshold ELSE r
    IN IF RatLeq(m, [num |-> 1, den |-> 1]) THEN m ELSE [num |-> 1, den |-> 1]

ScaleStep ==
    (pc = "RISK_ADJUSTING" /\ iteration' = iteration + 1) =>
        \A i \in DOMAIN proposal.trades :
            LET t == proposal.trades[i]
                risk == risk_assessment'.position_risks[t.symbol]
            IN risk > config.risk_tolerance.position_risk =>
                  proposal'.trades[i].quantity = Trunc(t.quantity, ClaimedScale(risk, config))

\* C8: in one iteration a symbol whose position risk exceeds the limit gets
\* the quantity trunc(quantity * s), s = min(1.0, max(limit / risk,
\* resize_threshold)).
C8_ScaleFormula == [][ScaleStep]_vars

\* the position risks of the final proposal are within the limit
FinalPositionRisksWithinLimit ==
    \A i \in DOMAIN proposal.trades :
        PositionRisk(market_data.risk_model, proposal.trades[i].symbol,
                     proposal.trades[i].quantity) <= config.risk_tolerance.position_risk

\* C9 as claimed: with a monotonic risk model, no symbol of the final proposal
\* of a cycle that emits orders has a position risk above the limit, also
\* when the risk loop did not converge.
C9_FinalRiskBounded ==
    (pc = "DONE" /\ market_data.risk_model \in MonotonicModels) =>
        FinalPositionRisksWithinLimit

\* C9 amended: with a monotonic risk model, no symbol of the final proposal of
\* a cycle that emits orders and whose risk loop converged has a position risk
\* above the limit, also after the correlation stage.
C9_FinalRiskBoundedIfConverged ==
    (pc \in {"FINALIZING", "DONE"} /\ converged
        /\ market_data.risk_model \in MonotonicModels) =>
        FinalPositionRisksWithinLimit

C9_Witness ==
    /\ pc = "DONE"
    /\ converged
    /\ iteration > 0
    /\ market_data.risk_model \in MonotonicModels
    /\ proposal # loop_result
    /\ returned # <<>>

\* C10: in a completed cycle either the portfolio risk of the proposal that
\* left the risk stage is within the limit or the cycle's result reports the
\* non-convergence.
C10_PortfolioRiskOrReported ==
    pc = "DONE" =>
        \/ AnalyzeRisk(loop_result, market_data.risk_model).portfolio_risk
               <= config.risk_tolerance.portfolio_risk
        \/ ReportsNonConvergence(CycleResult)

----------------------------------------------------------------------------
(* Proposals and orders *)

UniqueSymbols(ts) == \A i, j \in DOMAIN ts : ts[i].symbol = ts[j].symbol => i = j

\* C11: at every stage boundary (after sizing, in every risk iteration, after
\* the correlation stage, in the order list) no symbol occurs more than once
C11_UniqueSymbols ==
    /\ UniqueSymbols(proposal.trades)
    /\ UniqueSymbols(loop_result.trades)
    /\ UniqueSymbols(orders)
    /\ UniqueSymbols(returned)

C11_Witness ==
    /\ pc = "DONE"
    /\ iteration > 0
    /\ Len(proposal.trades) = 2
    /\ Len(returned) = 2

SignedSide(t) ==
    /\ t.type = "BUY" => t.quantity > 0
    /\ t.type = "SELL" => t.quantity < 0

\* C12 as stated: the quantity of every proposed trade carries the sign of
\* its side, positive for BUY and negative for SELL
C12_SignedQuantities ==
    \A i \in DOMAIN proposal.trades : SignedSide(proposal.trades[i])

SideOfSignal(sg) == IF sg.signal < 0 THEN "SELL" ELSE "BUY"

SideKept(t) ==
    /\ t.quantity >= 0
    /\ t.type = SideOfSignal(signals[t.symbol])

\* C12 amended: the quantity of every proposed trade and order is
\* non-negative and its type is the side of the symbol's signal, at every
\* stage boundary; scaling changes neither
C12_SideInType ==
    /\ \A i \in DOMAIN proposal.trades : SideKept(proposal.trades[i])
    /\ \A i \in DOMAIN loop_result.trades : SideKept(loop_result.trades[i])
    /\ \A i \in DOMAIN orders : SideKept(orders[i])
    /\ \A i \in DOMAIN returned : SideKept(returned[i])

C12_Witness ==
    /\ pc = "DONE"
    /\ \E i \in DOMAIN returned :
          /\ returned[i].type = "SELL"
          /\ returned[i].quantity > 0
          /\ returned[i].quantity <
                SizedQuantity(market_data.prices[returned[i].symbol],
                              PortfolioValue(portfolio_state))

NonZeroTrades(ts) == SelectSeq(ts, LAMBDA t : t.quantity # 0)

\* the orders are those of the non-zero trades, one each and in their order
OrdersOf(os, ts) ==
    /\ Len(os) = Len(NonZeroTrades(ts))
    /\ \A i \in DOMAIN os :
          /\ os[i].symbol = NonZeroTrades(ts)[i].symbol
          /\ os[i].quantity = NonZeroTrades(ts)[i].quantity

\* C13: every emitted order has a quantity above zero; a trade scaled to zero
\* produces no order; apply_rules emits exactly one order per remaining
\* non-zero trade
C13_PositiveOrders ==
    /\ \A i \in DOMAIN orders : orders[i].quantity > 0
    /\ \A i \in DOMAIN returned : returned[i].quantity > 0
    /\ pc = "FINALIZING" =>
          OrdersOf(orders, SubSeq(proposal.trades, 1, nextTrade - 1))
    /\ pc = "DONE" => OrdersOf(returned, proposal.trades)

C13_Witness ==
    /\ pc = "DONE"
    /\ Len(returned) = 1
    /\ \E i \in DOMAIN proposal.trades : proposal.trades[i].quantity = 0

\* the symbols with a trade or an order anywhere in the cycle
Traded ==
    ProposalSymbols(proposal) \cup ProposalSymbols(loop_result)
        \cup { orders[i].symbol : i \in DOMAIN orders }
        \cup { returned[i].symbol : i \in DOMAIN returned }

\* C14: a symbol whose signal has confidence 0, or a magnitude below the
\* deadband, has no trade in the proposal of propose_trades and no order
C14_NoTradeWithoutSignal ==
    \A s \in DOMAIN signals :
        (signals[s].confidence = 0 \/ Abs(signals[s].signal) < deadband)
            => s \notin Traded

C14_Witness ==
    /\ pc = "DONE"
    /\ Len(returned) = 1
    /\ \E s \in DOMAIN signals :
          signals[s].confidence > 0 /\ Abs(signals[s].signal) < deadband

\* propose_trades has returned and the risk loop has not started
JustSized == pc = "RISK_ADJUSTING" /\ analyzeCalls = 0

\* floor(max_position_size * value / price)
FloorOfMaximum(price, value) ==
    (max_position_size.num * value) \div (max_position_size.den * price)

----------------------------------------------------------------------------
(* Failures *)

\* some signal of the call has a confidence outside [0,1] or a strength
\* outside [-1,1]
InvalidInput ==
    \E s \in DOMAIN signals :
        \/ signals[s].confidence < 0 \/ signals[s].confidence > 100
        \/ signals[s].signal < -100 \/ signals[s].signal > 100

\* the agents that recorded a decision in cycle c
DecidedIn(c) ==
    { a \in Agents : \E i \in DOMAIN agent_state[a].historical_decisions :
                        agent_state[a].historical_decisions[i].cycle = c }

C17_InsufficientCashRecovered ==
    /\ raised.kind = "InsufficientCashError" => pc # "ERROR"
    /\ (/\ InsufficientCash(signals, market_data.prices, portfolio_state)
        /\ pc \in (StageStates \ {"SIZING"}) \cup Terminal)
           => /\ pc # "ERROR"
              /\ proposal.trades = <<>>
              /\ pc = "DONE" => returned = <<>>

\* what the loop does when it runs out of iterations: the configuration of
\* the loop has no such setting, which leaves the default
NonConvergencePolicy ==
    IF "non_convergence_policy" \in DOMAIN config
    THEN config.non_convergence_policy ELSE "proceed"

\* C18: when the risk loop ends without convergence the default policy goes on
\* through CORRELATION_ADJUSTING and FINALIZING to DONE with the best-effort
\* proposal and a non-convergence flag in the result; under the abort policy
\* the cycle goes to ERROR and emits no orders
C18_NonConvergencePolicy ==
    /\ (LoopReturned /\ ~converged /\ NonConvergencePolicy = "proceed"
            /\ pc = "DONE")
           => /\ OrdersOf(returned, proposal.trades)
              /\ ReportsNonConvergence(CycleResult)
    /\ (LoopReturned /\ ~converged /\ NonConvergencePolicy = "abort")
           => pc = "ERROR" /\ returned = <<>>

\* the stage that was running when the cycle failed
FailedStage == stagesRun[Len(stagesRun)]

\* C19: a failure handed to the caller names the stage that was executing
\* when the error arose, and a failure of the risk stage carries the
\* iteration count and the last metrics
C19_FailureNamesStage ==
    (pc = "ERROR" /\ stagesRun # <<>>) =>
        /\ "stage" \in DOMAIN raised /\ raised.stage = FailedStage
        /\ FailedStage = "RISK_ADJUSTING" =>
              /\ "iteration" \in DOMAIN raised /\ raised.iteration = iteration
              /\ "metrics" \in DOMAIN raised /\ raised.metrics = risk_assessment

----------------------------------------------------------------------------
(* Correlation stage *)

\* the correlation stage has returned: loop_result is the proposal it was
\* given and proposal the one it returned
CorrelationDone == pc \in {"FINALIZING", "DONE"}

\* a and b form a pair the stage looks at: a is in the proposal, b is in the
\* proposal or among the existing positions, and they are correlated beyond
\* max_correlation
Breaching(a, b) ==
    /\ a # b
    /\ a \in ProposalSymbols(loop_result)
    /\ b \in ProposalSymbols(loop_result) \cup HeldSymbols(portfolio_state)
    /\ Abs(correlation_matrix[a, b]) > max_correlation

ConfidenceOf(s) == IF s \in DOMAIN signals THEN signals[s].confidence ELSE 0

QuantityOf(s) ==
    IF s \in ProposalSymbols(loop_result)
    THEN SumQty(loop_result.trades, s)
    ELSE Abs(portfolio_state.positions[s].quantity)

\* a is the leg of the pair that has the lower confidence; on equal
\* confidence the one with the larger quantity
LowerLeg(a, b) ==
    \/ ConfidenceOf(a) < ConfidenceOf(b)
    \/ /\ ConfidenceOf(a) = ConfidenceOf(b)
       /\ \/ QuantityOf(a) > QuantityOf(b)
          \/ QuantityOf(a) = QuantityOf(b) /\ Rank(a) < Rank(b)

\* the pairs in which a is the leg to scale
PairsScaling(a) == { b \in Symbols : Breaching(a, b) /\ LowerLeg(a, b) }

TradeOf(p, s) == p.trades[CHOOSE i \in DOMAIN p.trades : p.trades[i].symbol = s]

\* a and b are both in the proposal given to the stage, correlated beyond
\* max_correlation, of equal confidence, and a has the larger quantity
TiedPair(a, b) ==
    /\ {a, b} \subseteq ProposalSymbols(loop_result)
    /\ Abs(correlation_matrix[a, b]) > max_correlation
    /\ correlation_matrix[a, b] = correlation_matrix[b, a]
    /\ ConfidenceOf(a) = ConfidenceOf(b)
    /\ QuantityOf(a) > QuantityOf(b)

\* C21: when both legs of a breaching pair have equal confidence, the leg with
\* the larger absolute quantity is scaled and the other leg is unchanged,
\* whichever order the pair is visited in
C21_TieBreak ==
    CorrelationDone =>
        \A a, b \in Symbols :
            TiedPair(a, b) =>
                /\ TradeOf(proposal, a).quantity =
                      Trunc(TradeOf(loop_result, a).quantity, adjustment_factor)
                /\ TradeOf(proposal, b) = TradeOf(loop_result, b)

C21_Witness ==
    /\ pc = "DONE"
    /\ \E a, b \in Symbols :
          /\ TiedPair(a, b)
          /\ TradeOf(proposal, a).quantity < TradeOf(loop_result, a).quantity
          /\ TradeOf(proposal, b).quantity > 0

\* the symbols whose quantity the stage scaled
ScaledSymbols == { s \in ProposalSymbols(loop_result) : PairsScaling(s) # {} }

\* C22: affected_positions is exactly the set of symbols whose quantity was
\* scaled in the call: every scaled symbol is listed and no other symbol
C22_AffectedAreScaled ==
    CorrelationDone => correlation_adjustment.affected_positions = ScaledSymbols

----------------------------------------------------------------------------
(* Execution rules *)

\* the market-impact estimate of the order: quantity times the impact
\* coefficient of its symbol
ImpactOf(o) == o.quantity * impact_coefficient[o.symbol]

\* reference_price * (1 + d * price_threshold) in units of 10^-2
PriceShifted(o, d) ==
    market_data.prices[o.symbol] * (100 + d * execution_config.price_threshold)

\* the order follows the rule of apply_rules, with d the sign for a BUY
FollowsRule(o, d) ==
    IF ImpactOf(o) > execution_config.market_impact_limit
    THEN /\ o.order_type = "LIMIT"
         /\ o.price = PriceShifted(o, IF o.type = "BUY" THEN d ELSE -d)
    ELSE /\ o.order_type = execution_config.default_order_type
         /\ o.time_in_force = execution_config.time_in_force

\* the orders are those of the non-zero trades: same symbol, side and
\* quantity, one order per trade
SameTrades(os, ts) ==
    /\ OrdersOf(os, ts)
    /\ \A i \in DOMAIN os : os[i].type = NonZeroTrades(ts)[i].type

\* C23: every order has the configured default_order_type and time_in_force
\* unless quantity times the impact coefficient of the symbol exceeds
\* market_impact_limit; then it is a LIMIT order at reference_price *
\* (1 + price_threshold) for one side and reference_price * (1 -
\* price_threshold) for the other; symbol, side and quantity are those of the
\* trade in both cases and no order is split
C23_OrderParameters ==
    /\ \E d \in {1, -1} :
          /\ \A i \in DOMAIN orders : FollowsRule(orders[i], d)
          /\ \A i \in DOMAIN returned : FollowsRule(returned[i], d)
    /\ pc = "FINALIZING" =>
          SameTrades(orders, SubSeq(proposal.trades, 1, nextTrade - 1))
    /\ pc = "DONE" => SameTrades(returned, proposal.trades)

C23_Witness ==
    /\ pc = "DONE"
    /\ execution_config.default_order_type = "MARKET"
    /\ \E i, j \in DOMAIN returned :
          /\ ImpactOf(returned[i]) > execution_config.market_impact_limit
          /\ returned[i].order_type = "LIMIT"
          /\ returned[i].price # 100 * market_data.prices[returned[i].symbol]
          /\ ImpactOf(returned[j]) <= execution_config.market_impact_limit
          /\ returned[j].order_type = "MARKET"

----------------------------------------------------------------------------
(* Portfolio and agent state *)

\* a step of a running cycle, not the call that starts the next one
CycleStep == cycle' = cycle

PortfolioKept == CycleStep => portfolio_state' = portfolio_state

HistoryOf(a) == agent_state[a].historical_decisions

\* propose_trades returns
ProposeTradesReturned == pc = "SIZING" /\ pc' = "RISK_ADJUSTING"

HistoryStep ==
    /\ \A a \in Agents : IsPrefix(HistoryOf(a), HistoryOf(a)')
    /\ ProposeTradesReturned =>
          Len(HistoryOf("position")') = Len(HistoryOf("position")) + 1
    /\ HistoryOf("position")' # HistoryOf("position") => ProposeTradesReturned

\* C26: each call of propose_trades appends exactly one Decision to the
\* historical_decisions of the position sizing stage; the historical_decisions
\* of a stage only grow over the cycles of an orchestrator, are never
\* truncated, reordered or reset, and no other stage writes to them
C26_HistoryGrows == [][HistoryStep]_vars

C26_Witness ==
    /\ cycle = 2
    /\ pc = "DONE"
    /\ Len(HistoryOf("position")) = 2

MetricsOf(a) == agent_state[a].performance_metrics

\* the cycle reaches DONE and hands out the order sequence
ReachesDone == pc # "DONE" /\ pc' = "DONE"

MetricsStep ==
    /\ ReachesDone => \A a \in Agents : MetricsOf(a)' # MetricsOf(a)
    /\ (\E a \in Agents : MetricsOf(a)' # MetricsOf(a)) => ReachesDone

\* C27: when a cycle reaches DONE the performance_metrics of each of the four
\* stages have been updated, and they are updated only together with the
\* emission of the order sequence
C27_MetricsUpdatedAtDone == [][MetricsStep]_vars

----------------------------------------------------------------------------
(* Sequencing within a cycle *)

\* a stage starts
StageStarts == pc' \in StageStates /\ pc' # pc

\* the while loop of process has ended
LoopEnded == converged \/ iteration >= config.max_iterations

SequentialStep ==
    /\ StageStarts =>
          /\ \A i \in DOMAIN stagesRun : stagesRun[i] # pc'
          /\ stagesRun' = Append(stagesRun, pc')
          /\ pc \in StageStates => pc = stagesRun[Len(stagesRun)]
    /\ (pc = "RISK_ADJUSTING" /\ pc' = "RISK_ADJUSTING") =>
          /\ ~LoopEnded
          /\ risk_assessment' = AnalyzeRisk(proposal, market_data.risk_model)
          /\ iteration' \in {iteration, iteration + 1}
          /\ iteration' = iteration => proposal' = proposal /\ converged'
    /\ (pc = "RISK_ADJUSTING" /\ pc' = "CORRELATION_ADJUSTING") =>
          LoopEnded /\ loop_result' = proposal
    /\ (pc = "CORRELATION_ADJUSTING" /\ pc' = "FINALIZING") =>
          proposal = loop_result /\ orders' = <<>>

\* C30: within a cycle no two stages execute at the same time: a stage
\* starts only after the stage before it has returned its proposal, and the
\* iterations of the risk loop run one after another, each on the proposal
\* the one before it produced
C30_StagesSequential == [][SequentialStep]_vars

C30_Witness ==
    /\ pc = "DONE"
    /\ iteration = DefaultMaxIterations
    /\ Len(returned) = 2

----------------------------------------------------------------------------
(* Frame of one risk-loop iteration; metrics of the loop *)

\* the symbols of the assessment whose position risk is within the limit
WithinPositionLimit(ra) ==
    { s \in DOMAIN ra.position_risks :
          ra.position_risks[s] <= config.risk_tolerance.position_risk }

\* the assessment fails the acceptance predicate on the portfolio risk or the
\* value at risk only
FailsOnPortfolioOnly(ra) ==
    /\ \/ ra.portfolio_risk > config.risk_tolerance.portfolio_risk
       \/ ra.var > config.risk_tolerance.var
    /\ WithinPositionLimit(ra) = DOMAIN ra.position_risks

KeepStep ==
    (pc = "RISK_ADJUSTING" /\ pc' = "RISK_ADJUSTING") =>
        \A i \in DOMAIN proposal.trades :
            proposal.trades[i].symbol \in WithinPositionLimit(risk_assessment') =>
                /\ i \in DOMAIN proposal'.trades
                /\ proposal'.trades[i] = proposal.trades[i]

UnchangedRunStep ==
    (pc = "RISK_ADJUSTING" /\ pc' = "CORRELATION_ADJUSTING") =>
        LET sized == ProposeTrades(signals, market_data.prices, portfolio_state)
        IN FailsOnPortfolioOnly(AnalyzeRisk(sized, market_data.risk_model)) =>
              /\ loop_result' = sized
              /\ ~converged'
              /\ iteration' = config.max_iterations

C34_MetricsOfReturnedProposal ==
    LoopReturned =>
        risk_assessment = AnalyzeRisk(loop_result, market_data.risk_model)

----------------------------------------------------------------------------
(* Parallel cycles *)

\* C28: two cycles that run in parallel, each with its own ExecutionContext
\* and without shared AgentState, do not interfere: under every interleaving
\* of their steps each returns what it returns when it runs alone
C28_ParallelCyclesIndependent ==
    ~parallel.shared_agents =>
        \A i \in DOMAIN parallel.threads :
            Thread(i).pc = "DONE" => Thread(i).returned = RunAlone(Thread(i).own)

C28_Witness ==
    /\ DOMAIN parallel.threads = ThreadIds
    /\ ~parallel.shared_agents
    /\ Thread(1).pc = "DONE"
    /\ Thread(1).returned # <<>>
    /\ Thread(2).pc = "RISK_ADJUSTING"
    /\ Thread(2).iteration > 0
    /\ Thread(2).own # Thread(1).own

\* the thread is between reading and writing the AgentState of its agent
Writing(i) == Thread(i).pc = "SIZING"

\* the thread has made its write
Written(i) == Thread(i).pc \notin {"IDLE", "INITIALIZED", "SIZING", "ERROR"}

\* C29: when the AgentState of a stage is shared by parallel cycles its
\* mutations are serialized: no two cycles write the same AgentState at the
\* same time and no appended Decision of one cycle is lost or overwritten by
\* another
C29_SharedStateSerialized ==
    (DOMAIN parallel.threads = ThreadIds /\ parallel.shared_agents) =>
        /\ ~(Writing(1) /\ Writing(2))
        /\ \A i \in ThreadIds :
              Written(i) =>
                  \E k \in DOMAIN parallel.histories[AgentOf(i)] :
                      parallel.histories[AgentOf(i)][k] = Decision(i)

----------------------------------------------------------------------------
(* Determinism of a cycle *)

\* the two cycles got equal inputs and their position agents started from
\* equal AgentState
EqualStart(i, j) ==
    /\ Thread(i).own = Thread(j).own
    /\ Thread(i).seen = Thread(j).seen

Ended(i) == Thread(i).pc \in Terminal

----------------------------------------------------------------------------
(* Sample clients *)

InConsumeLoop(sample) == client.sample = sample /\ client.pc = "CONSUMING"

ConsumeLoopStep ==
    InConsumeLoop("SampleMD.js") =>
        /\ client'.pc # "CONSUMING" =>
              \/ client'.event.kind \in {"quit", "SIGINT"}
              \/ client'.readyState # "OPEN"
        /\ client'.event.kind = "message" =>
              /\ client'.pc = "CONSUMING"
              /\ "messageHandler" \in client'.listeners

LogoutStep ==
    ("logout" \notin client.sent /\ "logout" \in client'.sent) =>
        /\ client.readyState = "OPEN"
        /\ client.resolved
        /\ client.pc = "AFTER_CONSUME"
        /\ "disconnect" \in client'.sent

FinalResponse == Event("message", Msg(207, TRUE))

ConsumeResolveStep ==
    /\ (InConsumeLoop("SampleBar.js") /\ client'.event = FinalResponse
            /\ client' # client) => client'.resolved
    /\ (client.sample = "SampleBar.js" /\ ~client.resolved /\ client'.resolved) =>
          \/ client'.event = FinalResponse
          \/ client'.event.kind = "message" /\ client'.numMsgs = maxNumMsgs
          \/ client'.event.kind \in {"error", "close"}

\* C36: consume of SampleBar.js resolves in the run of the message handler that
\* receives the final tick bar replay response or counts the 10000th message,
\* or on an error or a close of the socket; once it has resolved, none of its
\* message, error and close handlers is registered on the socket, and its
\* interval sends no heartbeat
C36_ConsumeResolvesClean ==
    /\ [][ConsumeResolveStep]_vars
    /\ []((client.sample = "SampleBar.js" /\ client.resolved) =>
              /\ client.listeners \cap {"messageHandler", "errorHandler",
                                        "closeHandler"} = {}
              /\ ~client.heartbeat_after_resolve)

====
